---- MODULE Spec2Model ----
(***************************************************************************)
(* Model of volare's version store: the on-disk layout under a PDK root,   *)
(* retrieval of a version from the release host, activation through        *)
(* per-variant symlinks plus the "current" marker file, and uninstall.     *)
(* One family (sky130) is modelled; paths are sequences of components, an  *)
(* absolute path starting with the component "/".                          *)
(***************************************************************************)
EXTENDS Integers, Sequences, FiniteSets, TLC

\* ------------------------------------------------------------------ bounds
NumVersions == 2
NumLibs == 2
MaxInputLen == 3
MaxReleases == 3
MaxDate == 2
MaxOutput == 3
MaxJobs == 2
MaxSubmodules == 3
MaxRequests == 2

\* ------------------------------------------------------- families.py table
sky130 ==
    [ name |-> "sky130",
      variants |-> <<"sky130A", "sky130B">>,
      all_libraries |->
        << "sky130_fd_io", "sky130_fd_pr", "sky130_ml_xx_hd",
           "sky130_fd_sc_hd", "sky130_fd_sc_hdll", "sky130_fd_sc_lp",
           "sky130_fd_sc_hvl", "sky130_fd_sc_ls", "sky130_fd_sc_ms",
           "sky130_fd_sc_hs", "sky130_sram_macros", "sky130_fd_pr_reram" >>,
      default_includes |->
        << "sky130_fd_io", "sky130_fd_pr", "sky130_fd_sc_hd",
           "sky130_fd_sc_hvl", "sky130_ml_xx_hd", "sky130_sram_macros" >> ]

Range(s) == { s[i] : i \in 1..Len(s) }

pdk == sky130.name
variants == sky130.variants
VariantSet == Range(variants)

\* Version names and the libraries that releases carry in the model.
VersionNames == << "v1", "v2", "v3", "v4" >>
Versions == { VersionNames[i] : i \in 1..NumVersions }
LibraryNames == << "sky130_fd_sc_hd", "sky130_fd_sc_hdll", "sky130_fd_sc_lp", "sky130_fd_sc_hs" >>
ModelLibs == { LibraryNames[i] : i \in 1..NumLibs }

\* One file of a version's payload: <<variant, piece>>, the piece being
\* "common" (libs.tech and the rest), a library (libs.ref/<library>) or the
\* SOURCES provenance file.
Pieces == {"common", "SOURCES"} \cup ModelLibs
Entries == VariantSet \X Pieces

\* --------------------------------------------------------------- os.path
PdkRoots == { <<"/", "pdk">>, <<"/", "home", "user", ".volare">> }

isabs(path) == Len(path) > 0 /\ path[1] = "/"

RECURSIVE CommonPrefixLen(_, _)
CommonPrefixLen(p, q) ==
    IF Len(p) = 0 \/ Len(q) = 0 \/ p[1] # q[1] THEN 0
    ELSE 1 + CommonPrefixLen(Tail(p), Tail(q))

\* os.path.relpath(path, start) for absolute, normalised arguments.
relpath(path, start) ==
    LET i == CommonPrefixLen(path, start)
        ups == [ k \in 1..(Len(start) - i) |-> ".." ]
        rest == SubSeq(path, i + 1, Len(path))
    IN  IF Len(ups) + Len(rest) = 0 THEN <<".">> ELSE ups \o rest

\* os.path.normpath(os.path.join(base, rel)): what following a link whose
\* text is rel, stored in directory base, arrives at.
RECURSIVE normjoin(_, _)
normjoin(base, rel) ==
    IF Len(rel) = 0 THEN base
    ELSE IF rel[1] = "/" THEN normjoin(<<"/">>, Tail(rel))
    ELSE IF rel[1] = "." THEN normjoin(base, Tail(rel))
    ELSE IF rel[1] = ".."
         THEN normjoin(IF Len(base) > 1 THEN SubSeq(base, 1, Len(base) - 1) ELSE base,
                       Tail(rel))
    ELSE normjoin(Append(base, rel[1]), Tail(rel))

get_volare_dir(pdk_root, family) == pdk_root \o <<"volare", family>>
get_versions_dir(pdk_root, family) == get_volare_dir(pdk_root, family) \o <<"versions">>
get_version_dir(pdk_root, family, version) == get_versions_dir(pdk_root, family) \o <<version>>

\* ---------------------------------------------------------------- state
VARIABLES
    pdk_root,     \* the PDK root of this installation
    versionDir,   \* version -> [exists, files]: <root>/volare/sky130/versions/<version>
    finalPath,    \* variant -> [kind, text]: what is at <root>/<variant>
    current,      \* [exists, text]: the marker file <root>/volare/sky130/current
    lastOp,       \* the last command run and how it ended
    resolution,   \* [pdk, input, result]: one call of Family.resolve_libraries
    catalogue,    \* [releases, result]: one call of Version._from_github
    task,         \* one GitMultiClone.clone or clone_submodule task
    fanout,       \* one call of get_sky130: the executor and its tasks
    variant_build,\* one call of build_variants: containers and interrupt
    session       \* the token sources and one GitHubSession

vars == << pdk_root, versionDir, finalPath, current, lastOp, resolution, catalogue,
           task, fanout, variant_build, session >>

\* The parts of the program that are not running in a specification.
Idle == [pc |-> "idle"]
processes == << task, fanout, variant_build, session >>
ProcessesIdle ==
    /\ task = Idle /\ fanout = Idle /\ variant_build = Idle /\ session = Idle

NoDir == [exists |-> FALSE, files |-> {}]
Absent == [kind |-> "absent", text |-> <<>>]
Clutter == { [kind |-> "dir", text |-> <<>>] }
Link(text) == [kind |-> "link", text |-> text]
NoFile == [exists |-> FALSE, text |-> ""]
File(text) == [exists |-> TRUE, text |-> text]

\* The filesystem as the operations see it.
FS(vd, fp, cur) == [versionDir |-> vd, finalPath |-> fp, current |-> cur]

VariantDirs(files) == { e[1] : e \in files }

\* os.path.isdir / os.path.exists of an absolute path inside the store.
store_exists(root, vd, path) ==
    \E v \in Versions :
        /\ vd[v].exists
        /\ \/ path = get_version_dir(root, pdk, v)
           \/ \E variant \in VariantDirs(vd[v].files) :
                 path = get_version_dir(root, pdk, v) \o <<variant>>

\* os.path.islink, os.path.lexists and os.path.exists (which follows links)
\* of <root>/<variant>.
islink(fs, variant) == fs.finalPath[variant].kind = "link"
lexists(fs, variant) == fs.finalPath[variant].kind # "absent"
exists(root, fs, variant) ==
    CASE fs.finalPath[variant].kind = "absent" -> FALSE
      [] fs.finalPath[variant].kind = "link" ->
            store_exists(root, fs.versionDir, normjoin(root, fs.finalPath[variant].text))
      [] OTHER -> TRUE


\* ------------------------------------------------------ common.py: Version
is_installed_always(fs, version) == TRUE

is_installed(fs, version) == fs.versionDir[version].exists

\* str.strip() on the texts a marker file holds in the model: a version
\* name, which has no white space around it, or white space alone.
Blank == {"", "\n"}
strip(str) == IF str \in Blank THEN "" ELSE str

\* _get_current_version: the marker's text, stripped, or None when the file
\* is missing.
NoneStr == [is_none |-> TRUE, text |-> ""]
get_current_version(fs) ==
    IF fs.current.exists THEN [is_none |-> FALSE, text |-> strip(fs.current.text)]
    ELSE NoneStr

\* is_current compares the Version's name with it.
is_current_any_marker(fs, version) == ~get_current_version(fs).is_none

is_current(fs, version) ==
    LET c == get_current_version(fs)
    IN  ~c.is_none /\ c.text = version

\* Version.get_current: None only when _get_current_version gave None.
get_current(fs) ==
    LET c == get_current_version(fs)
    IN  IF c.is_none THEN [is_none |-> TRUE, name |-> ""]
        ELSE [is_none |-> FALSE, name |-> c.text]

\* The loop of unset_current: os.unlink of every variant path in order.
\* os.unlink removes a symlink or a regular file and raises on a missing
\* path or a directory, which ends the loop.
RECURSIVE unlink_variants(_, _)
unlink_variants(fp, i) ==
    IF i > Len(variants) THEN [finalPath |-> fp, raised |-> FALSE]
    ELSE IF fp[variants[i]].kind \in {"absent", "dir"}
         THEN [finalPath |-> fp, raised |-> TRUE]
    ELSE unlink_variants([fp EXCEPT ![variants[i]] = Absent], i + 1)

unset_current_keeping_marker(fs, version) ==
    IF ~is_installed(fs, version) \/ ~is_current(fs, version)
    THEN [fs |-> fs, raised |-> FALSE]
    ELSE LET r == unlink_variants(fs.finalPath, 1)
         IN  [fs |-> [fs EXCEPT !.finalPath = r.finalPath], raised |-> r.raised]

unset_current(fs, version) ==
    IF ~is_installed(fs, version) THEN [fs |-> fs, raised |-> FALSE]
    ELSE IF ~is_current(fs, version) THEN [fs |-> fs, raised |-> FALSE]
    ELSE LET r == unlink_variants(fs.finalPath, 1)
         IN  IF r.raised
             THEN [fs |-> [fs EXCEPT !.finalPath = r.finalPath], raised |-> TRUE]
             ELSE [fs |-> [fs EXCEPT !.finalPath = r.finalPath, !.current = NoFile],
                   raised |-> FALSE]

uninstall_skipping_unset(fs, version) ==
    IF ~is_installed(fs, version) THEN [fs |-> fs, outcome |-> "not_installed"]
    ELSE [fs |-> [fs EXCEPT !.versionDir[version] = NoDir], outcome |-> "ok"]

uninstall(fs, version) ==
    IF ~is_installed(fs, version) THEN [fs |-> fs, outcome |-> "not_installed"]
    ELSE LET r == unset_current(fs, version)
         IN  IF r.raised THEN [fs |-> r.fs, outcome |-> "exception"]
             ELSE [fs |-> [r.fs EXCEPT !.versionDir[version] = NoDir],
                   outcome |-> "ok"]

\* ------------------------------------------- common.py: get_release_links
NoneLibs == [is_none |-> TRUE, items |-> {}]
Libs(items) == [is_none |-> FALSE, items |-> items]

\* An asset of a release; its name is scl followed by ext, so that
\* name[:-8] of a ".tar.zst" asset is scl.
Asset(scl, ext) == [scl |-> scl, ext |-> ext]
common_tar_zst == Asset("common", ".tar.zst")
default_tar_xz == Asset("default", ".tar.xz")

NoRelease == [status |-> 404, assets |-> <<>>, variants |-> {}]

\* releases.status_code >= 400: the host has no release under the tag.
release_found_always(release) == FALSE

release_missing(release) == release.status >= 400

get_release_links(release, scl_filter_in) ==
    LET default_filter == scl_filter_in.is_none
        scl_filter == IF default_filter THEN Range(sky130.default_includes)
                      ELSE scl_filter_in.items
        is_xz(a) == default_filter /\ a = default_tar_xz
        is_zst(a) == /\ ~is_xz(a)
                     /\ a.ext = ".tar.zst"
                     /\ \/ a.scl = "common"
                        \/ "all" \in scl_filter
                        \/ a.scl \in scl_filter
        zst_files == SelectSeq(release.assets, is_zst)
        xz_files == SelectSeq(release.assets, is_xz)
    IN  IF release_missing(release) THEN [kind |-> "none", links |-> <<>>]
        ELSE IF Len(zst_files) > 0 THEN [kind |-> "links", links |-> zst_files]
        ELSE IF Len(xz_files) > 0 THEN [kind |-> "links", links |-> <<xz_files[Len(xz_files)]>>]
        ELSE [kind |-> "raise", links |-> <<>>]


\* ------------------------------------------------------ manage.py: enable
\* The files an archive unpacks to, given the variants the release was
\* packaged from (push puts <variant>/libs.ref/<library> into the library's
\* archive and everything else into "common"; the legacy archive holds the
\* whole default tree).
ArchiveFiles(asset, relVariants) ==
    IF asset = default_tar_xz
    THEN relVariants \X ({"common"} \cup (Range(sky130.default_includes) \cap ModelLibs))
    ELSE relVariants \X {asset.scl}

\* What has been written under the version directory when a failure
\* strikes archive number `at`: the archives before it in full and, when the
\* failure is in unpacking, the members of that archive for the first
\* variant of the release.
RECURSIVE UnpackedFiles(_, _, _)
UnpackedFiles(links, relVariants, n) ==
    IF n = 0 THEN {}
    ELSE UnpackedFiles(links, relVariants, n - 1) \cup ArchiveFiles(links[n], relVariants)

FirstVariantOf(relVariants) ==
    { variants[i] : i \in { j \in 1..Len(variants) :
          /\ variants[j] \in relVariants
          /\ \A k \in 1..(j - 1) : variants[k] \notin relVariants } }

PartialFiles(links, relVariants, fail) ==
    UnpackedFiles(links, relVariants, fail.at - 1)
      \cup IF fail.stage = "unpack"
           THEN ArchiveFiles(links[fail.at], FirstVariantOf(relVariants))
           ELSE {}

\* mkdirp of the parent of every extracted file: the version directory
\* comes into being with the first file written.
DirOf(files) == IF files = {} THEN NoDir ELSE [exists |-> TRUE, files |-> files]

\* Both except clauses: shutil.rmtree(version_directory, ignore_errors=True).
keep_partial(partial, kind) == DirOf(partial)

rmtree_on_failure(partial, kind) == NoDir

\* The SOURCES loop: open(<variant>/SOURCES, "w") for every variant in
\* order, which raises FileNotFoundError when the variant directory is not
\* there.
RECURSIVE write_sources(_, _)
write_sources(files, i) ==
    IF i > Len(variants) THEN [files |-> files, raised |-> FALSE]
    ELSE IF variants[i] \notin VariantDirs(files)
         THEN [files |-> files, raised |-> TRUE]
    ELSE write_sources(files \cup {<<variants[i], "SOURCES">>}, i + 1)

NoFail == [at |-> 0, stage |-> "none", kind |-> "none"]

\* The download-and-unpack branch, entered with the version directory
\* missing.  One request per archive; result is the directory afterwards.
download_and_unpack(links, relVariants, fail) ==
    IF fail.at \in 1..Len(links)
    THEN [dir |-> rmtree_on_failure(PartialFiles(links, relVariants, fail), fail.kind),
          outcome |-> IF fail.kind = "interrupt" THEN "interrupted" ELSE "error",
          requests |-> fail.at]
    ELSE LET files == UnpackedFiles(links, relVariants, Len(links))
             s == write_sources(files, 1)
         IN  [dir |-> DirOf(s.files),
              outcome |-> IF s.raised THEN "exception" ELSE "ok",
              requests |-> Len(links)]

\* build/sky130.py build: the libraries a build produces, and install_sky130
\* copying every variant of the build into the version directory.
BuildLibraries(include_libraries) ==
    IF include_libraries.is_none \/ include_libraries.items = {}
    THEN {"sky130_fd_sc_hd", "sky130_fd_sc_hvl", "sky130_fd_io", "sky130_fd_pr"}
    ELSE IF "all" \in include_libraries.items THEN Range(sky130.all_libraries)
    ELSE include_libraries.items

install_sky130(include_libraries) ==
    [exists |-> TRUE,
     files |-> VariantSet \X ({"common"} \cup (BuildLibraries(include_libraries) \cap ModelLibs))]


\* version_paths and final_paths of enable.
version_path(root, version, variant) == get_version_dir(root, pdk, version) \o <<variant>>

\* The first loop of the activation block: a final path that exists (links
\* followed) is unlinked when it is a symlink, and ends enable otherwise.
remove_links_replacing(root, fs, i) ==
    [finalPath |-> [ v \in VariantSet |->
                        IF exists(root, fs, v) THEN Absent ELSE fs.finalPath[v] ],
     conflict |-> FALSE]

RECURSIVE remove_links(_, _, _)
remove_links(root, fs, i) ==
    IF i > Len(variants) THEN [finalPath |-> fs.finalPath, conflict |-> FALSE]
    ELSE IF exists(root, fs, variants[i])
         THEN IF islink(fs, variants[i])
              THEN remove_links(root, [fs EXCEPT !.finalPath[variants[i]] = Absent], i + 1)
              ELSE [finalPath |-> fs.finalPath, conflict |-> TRUE]
    ELSE remove_links(root, fs, i + 1)

\* src of os.symlink.
absolute_src(vpath, root) == vpath

symlink_src(vpath, root) == relpath(vpath, root)

\* The second loop: os.symlink(src, dst) for every variant, which raises
\* FileExistsError when something is still at dst.
RECURSIVE make_links(_, _, _, _)
make_links(root, fp, version, i) ==
    IF i > Len(variants) THEN [finalPath |-> fp, raised |-> FALSE]
    ELSE IF fp[variants[i]].kind # "absent"
         THEN [finalPath |-> fp, raised |-> TRUE]
    ELSE make_links(root,
                    [fp EXCEPT ![variants[i]] =
                        Link(symlink_src(version_path(root, version, variants[i]), root))],
                    version, i + 1)

\* The activation block: both loops, then the marker file is written.
activate(root, fs, version) ==
    LET r1 == remove_links(root, fs, 1)
        r2 == make_links(root, r1.finalPath, version, 1)
    IN  IF r1.conflict
        THEN [fs |-> [fs EXCEPT !.finalPath = r1.finalPath], outcome |-> "conflict"]
        ELSE IF r2.raised
        THEN [fs |-> [fs EXCEPT !.finalPath = r2.finalPath], outcome |-> "exception"]
        ELSE [fs |-> [fs EXCEPT !.finalPath = r2.finalPath, !.current = File(version)],
              outcome |-> "ok"]

\* os.path.exists(version_directory) decides whether anything is retrieved.
always_retrieve(fs, version) == TRUE

needs_retrieval(fs, version) == ~fs.versionDir[version].exists

\* The environment of one enable call: the answer of the release host, the
\* failure (if any) that strikes the downloads, and how build and push end.
Env(release, fail, build, push) ==
    [release |-> release, fail |-> fail, build |-> build, push |-> push]

\* build_kwargs as enable_or_build_cmd fills it in: the library selection
\* of the command line goes to the build unchanged.
build_kwargs_default(include_libraries) == [include_libraries |-> NoneLibs]

build_kwargs(include_libraries) == [include_libraries |-> include_libraries]

\* One call enable makes to a collaborator, with the library selection it
\* passes and how the call returned.
Call(fn, libs, ret) == [fn |-> fn, libs |-> libs, ret |-> ret]

\* enable.  Result: the filesystem afterwards, how the call ended, the
\* number of HTTP requests made, what the retrieval step did, and the calls
\* to get_release_links, build, push and the activation block in the order
\* they were made.
enable(root, fs, version, build_if_not_found, also_push, include_libraries, env) ==
    LET Done(f, outcome, requests, retrieval, calls) ==
            [fs |-> f, outcome |-> outcome, requests |-> requests,
             retrieval |-> retrieval, calls |-> calls]
        Activate(f, requests, retrieval, calls) ==
            LET a == activate(root, f, version)
            IN  Done(a.fs, a.outcome, requests, retrieval,
                     Append(calls, Call("activate", NoneLibs, a.outcome)))
        links == get_release_links(env.release, include_libraries)
        asked == << Call("get_release_links", include_libraries, links.kind) >>
        d == download_and_unpack(links.links, env.release.variants, env.fail)
        kwargs == build_kwargs(include_libraries)
        build_call == Call("build", kwargs.include_libraries, env.build)
        push_call == Call("push", NoneLibs, env.push)
    IN  IF ~needs_retrieval(fs, version) THEN Activate(fs, 0, "installed", <<>>)
        ELSE IF links.kind = "raise" THEN Done(fs, "exception", 1, "failed", asked)
        ELSE IF links.kind = "none"
        THEN IF ~build_if_not_found THEN Done(fs, "not_found", 1, "failed", asked)
             ELSE IF env.build # "ok"
                  THEN Done(fs, "exception", 1, "failed", Append(asked, build_call))
             ELSE LET built == [fs EXCEPT !.versionDir[version] =
                                              install_sky130(kwargs.include_libraries)]
                  IN  IF ~also_push THEN Activate(built, 1, "built", Append(asked, build_call))
                      ELSE IF env.push # "ok"
                      THEN Done(built, "exception", 1, "built",
                                asked \o <<build_call, push_call>>)
                      ELSE Activate(built, 1, "built", asked \o <<build_call, push_call>>)
        ELSE LET f == [fs EXCEPT !.versionDir[version] = d.dir]
             IN  IF d.outcome = "ok" THEN Activate(f, 1 + d.requests, "fetched", asked)
                 ELSE Done(f, d.outcome, 1 + d.requests, "failed", asked)


\* ------------------------------------------------- inputs of the commands
\* include_libraries as the commands pass it on: None (no -l given), "all",
\* or a non-empty set of library names.
LibraryInputs ==
    {NoneLibs, Libs({"all"})} \cup { Libs(S) : S \in (SUBSET ModelLibs) \ {{}} }

\* Releases the host may answer with: no release, or a list of assets
\* packaged from some of the family's variants.
FullAssets ==
    <<common_tar_zst>> \o [ i \in 1..NumLibs |-> Asset(LibraryNames[i], ".tar.zst") ]
AssetLists ==
    { FullAssets, SubSeq(FullAssets, 1, NumLibs), Tail(FullAssets),
      <<default_tar_xz>>, <<>> }
ReleasesOf(lists) ==
    { [status |-> 200, assets |-> a, variants |-> vs] :
        a \in lists, vs \in (SUBSET VariantSet) \ {{}} }
Releases == ReleasesOf(AssetLists)

Failures ==
    {NoFail} \cup [ at : 1..(NumLibs + 1), stage : {"download", "unpack"},
                    kind : {"exception", "interrupt"} ]

\* The environments that can make a difference to this call of enable.
Envs(fs, version, build_if_not_found, also_push, releases, failures) ==
    IF ~needs_retrieval(fs, version) THEN { Env(NoRelease, NoFail, "ok", "ok") }
    ELSE { Env(NoRelease, NoFail, b, p) :
              b \in (IF build_if_not_found THEN {"ok", "fail"} ELSE {"ok"}),
              p \in (IF build_if_not_found /\ also_push THEN {"ok", "fail"} ELSE {"ok"}) }
         \cup { Env(r, f, "ok", "ok") : r \in releases, f \in failures }

\* ------------------------------------------------------------- behaviour
\* What the retrieval block of enable was given and what it met: the two
\* flags, the release the host answered with and the calls enable made.
\* When the block is skipped the flags are not read and the host is not
\* asked (status 0).
Asked(build_if_not_found, also_push, release, calls) ==
    [build_if_not_found |-> build_if_not_found, also_push |-> also_push,
     status |-> release.status, assets |-> release.assets, calls |-> calls]
NotAsked == Asked(FALSE, FALSE, [status |-> 0, assets |-> <<>>], <<>>)

Op(op, version, libs, outcome, requests, retrieval, wasCurrent, again, asked) ==
    [op |-> op, version |-> version, libs |-> libs, outcome |-> outcome,
     requests |-> requests, retrieval |-> retrieval, wasCurrent |-> wasCurrent,
     again |-> again, asked |-> asked]

fsNow == FS(versionDir, finalPath, current)

SetFS(fs) ==
    /\ versionDir' = fs.versionDir
    /\ finalPath' = fs.finalPath
    /\ current' = fs.current
    /\ UNCHANGED << pdk_root, resolution, catalogue, processes >>

EnableStep(version, build_if_not_found, also_push, include_libraries, env) ==
    LET r == enable(pdk_root, fsNow, version, build_if_not_found, also_push,
                    include_libraries, env)
    IN  /\ SetFS(r.fs)
        /\ lastOp' = Op("enable", version, include_libraries, r.outcome, r.requests,
                        r.retrieval, is_current(fsNow, version),
                        /\ lastOp.op = "enable"
                        /\ lastOp.retrieval \in {"fetched", "built"}
                        /\ lastOp.version = version
                        /\ lastOp.libs = include_libraries,
                        IF needs_retrieval(fsNow, version)
                        THEN Asked(build_if_not_found, also_push, env.release, r.calls)
                        ELSE Asked(FALSE, FALSE, [status |-> 0, assets |-> <<>>], r.calls))

\* volare enable <version> [-l ...]
enable_cmd_with(versions, libraries, releases, failures) ==
    \E version \in versions, include_libraries \in libraries :
        \E env \in Envs(fsNow, version, FALSE, FALSE, releases, failures) :
            EnableStep(version, FALSE, FALSE, include_libraries, env)

\* volare enable_or_build [--also-push] <version> [-l ...]
enable_or_build_cmd_with(versions, libraries, releases, failures) ==
    \E version \in versions, include_libraries \in libraries, also_push \in BOOLEAN :
        \E env \in Envs(fsNow, version, TRUE, also_push, releases, failures) :
            EnableStep(version, TRUE, also_push, include_libraries, env)

\* volare rm <version>
rm_cmd_with(versions) ==
    \E version \in versions :
        LET r == uninstall(fsNow, version)
        IN  /\ SetFS(r.fs)
            /\ lastOp' = Op("rm", version, NoneLibs, r.outcome, 0, "none",
                            is_installed(fsNow, version) /\ is_current(fsNow, version),
                            FALSE, NotAsked)

\* volare prune: every installed version that is not current is
\* uninstalled, in the order os.listdir gives; a failure is printed and the
\* loop goes on.
RECURSIVE prune_loop(_, _, _)
prune_loop(fs, order, i) ==
    IF i > Len(order) THEN fs
    ELSE IF ~is_installed(fs, order[i]) \/ is_current(fs, order[i])
         THEN prune_loop(fs, order, i + 1)
    ELSE prune_loop(uninstall(fs, order[i]).fs, order, i + 1)

ListdirOrders ==
    { o \in [1..NumVersions -> Versions] : \A i, j \in 1..NumVersions : o[i] = o[j] => i = j }

prune_cmd ==
    \E order \in ListdirOrders :
        /\ SetFS(prune_loop(fsNow, order, 1))
        /\ lastOp' = Op("prune", "", NoneLibs, "ok", 0, "none", FALSE, FALSE, NotAsked)

NoOp == Op("none", "", NoneLibs, "ok", 0, "none", FALSE, FALSE, NotAsked)

\* The two calls that do not touch the store, before they are made.
NotRun == [kind |-> "none", set |-> {}, element |-> ""]
NoResolution == [pdk |-> "", input |-> [is_none |-> TRUE, items |-> <<>>], result |-> NotRun]
NotFetched == [kind |-> "none", by_pdk |-> <<>>]
NoCatalogue == [releases |-> <<>>, result |-> NotFetched]

\* --- Spec: every version of the store, default library selection.  The
\* PDK root starts with nothing installed and, possibly, directories lying
\* at the variant paths.
ActivationReleases == ReleasesOf({FullAssets})
ActivationFailures == {NoFail, [at |-> 1, stage |-> "unpack", kind |-> "exception"]}

Init ==
    /\ pdk_root \in PdkRoots
    /\ versionDir = [ v \in Versions |-> NoDir ]
    /\ finalPath \in [ VariantSet -> {Absent} \cup Clutter ]
    /\ current = NoFile
    /\ lastOp = NoOp
    /\ resolution = NoResolution
    /\ catalogue = NoCatalogue
    /\ ProcessesIdle

enable_cmd ==
    enable_cmd_with(Versions, {NoneLibs}, ActivationReleases, ActivationFailures)
enable_or_build_cmd ==
    enable_or_build_cmd_with(Versions, {NoneLibs}, ActivationReleases, ActivationFailures)
rm_cmd == rm_cmd_with(Versions)

Next == enable_cmd \/ enable_or_build_cmd \/ rm_cmd \/ prune_cmd

Spec == Init /\ [][Next]_vars

\* --- SpecFetch: one version under one PDK root, every library selection;
\* enable meets every release shape and every failure point of the
\* downloads, enable_or_build a missing or a complete release.  Nothing
\* lies at the variant paths.
FetchVersions == { VersionNames[1] }
FetchRoot == <<"/", "pdk">>

InitFetch ==
    /\ pdk_root = FetchRoot
    /\ versionDir = [ v \in Versions |-> NoDir ]
    /\ finalPath = [ v \in VariantSet |-> Absent ]
    /\ current = NoFile
    /\ lastOp = NoOp
    /\ resolution = NoResolution
    /\ catalogue = NoCatalogue
    /\ ProcessesIdle

fetch_enable_cmd ==
    enable_cmd_with(FetchVersions, LibraryInputs, Releases, Failures)
fetch_enable_or_build_cmd ==
    enable_or_build_cmd_with(FetchVersions, LibraryInputs, ActivationReleases, {NoFail})
fetch_rm_cmd == rm_cmd_with(FetchVersions)

NextFetch == fetch_enable_cmd \/ fetch_enable_or_build_cmd \/ fetch_rm_cmd

SpecFetch == InitFetch /\ [][NextFetch]_vars


\* ------------------------------------------------- families.py: Family
\* Family.__post_init__: default_includes left out of a declaration becomes
\* a copy of all_libraries.
post_init(declared) ==
    [ name |-> declared.name,
      variants |-> declared.variants,
      all_libraries |-> declared.all_libraries,
      default_includes |->
          IF "default_includes" \in DOMAIN declared THEN declared.default_includes
          ELSE declared.all_libraries ]

gf180mcu ==
    [ name |-> "gf180mcu",
      variants |-> <<"gf180mcuA", "gf180mcuB", "gf180mcuC", "gf180mcuD">>,
      all_libraries |->
        << "gf180mcu_fd_io", "gf180mcu_fd_pr", "gf180mcu_fd_sc_mcu7t5v0",
           "gf180mcu_fd_sc_mcu9t5v0", "gf180mcu_fd_ip_sram",
           "gf180mcu_osu_sc_gp12t3v3", "gf180mcu_osu_sc_gp9t3v3" >>,
      default_includes |->
        << "gf180mcu_fd_io", "gf180mcu_fd_pr", "gf180mcu_fd_sc_mcu7t5v0",
           "gf180mcu_fd_sc_mcu9t5v0", "gf180mcu_fd_ip_sram" >> ]

ihp_sg13g2 ==
    [ name |-> "ihp_sg13g2",
      variants |-> <<"ihp-sg13g2">>,
      all_libraries |-> << "sg13g2_io", "sg13g2_pr", "sg13g2_sram", "sg13g2_stdcell" >> ]

FamilyNames == {"sky130", "gf180mcu", "ihp_sg13g2"}
by_name ==
    [ n \in FamilyNames |->
        CASE n = "sky130" -> post_init(sky130)
          [] n = "gf180mcu" -> post_init(gf180mcu)
          [] n = "ihp_sg13g2" -> post_init(ihp_sg13g2) ]

\* str.lower on the spellings that occur in the inputs; the library names
\* of the tables are in lower case already.
Lowered == [ s \in {"ALL", "All", "DEFAULT", "Default"} |->
               IF s \in {"ALL", "All"} THEN "all" ELSE "default" ]
lower(element) == IF element \in DOMAIN Lowered THEN Lowered[element] ELSE element

\* The outcome of resolve_libraries: the set returned, or the ValueError
\* raised for an element.
Returned(set) == [kind |-> "set", set |-> set, element |-> ""]
Raised(element) == [kind |-> "raise", set |-> {}, element |-> element]

\* The loop over the input, from element i on, with final_set so far.
resolve_loop_lenient(family, items, i, final_set) ==
    IF \E k \in 1..Len(items) : lower(items[k]) = "all"
    THEN Returned(Range(family.all_libraries))
    ELSE Returned((Range(items) \cap Range(family.all_libraries))
                   \cup IF \E k \in 1..Len(items) : lower(items[k]) = "default"
                        THEN Range(family.default_includes) ELSE {})

RECURSIVE resolve_loop(_, _, _, _)
resolve_loop(family, items, i, final_set) ==
    IF i > Len(items) THEN Returned(final_set)
    ELSE IF lower(items[i]) = "all" THEN Returned(Range(family.all_libraries))
    ELSE IF lower(items[i]) = "default"
         THEN resolve_loop(family, items, i + 1,
                           final_set \cup Range(family.default_includes))
    ELSE IF items[i] \in Range(family.all_libraries)
         THEN resolve_loop(family, items, i + 1, final_set \cup {items[i]})
    ELSE Raised(items[i])

\* The input of resolve_libraries: None, or an iterable given by the
\* sequence of its elements.
InputNone == [is_none |-> TRUE, items |-> <<>>]
Input(items) == [is_none |-> FALSE, items |-> items]

resolve_libraries_none_is_all(family, input) ==
    resolve_loop(family, IF input.is_none THEN <<"all">> ELSE input.items, 1, {})

resolve_libraries(family, input) ==
    resolve_loop(family, IF input.is_none THEN <<"default">> ELSE input.items, 1, {})

\* --- SpecResolve: resolve_libraries of every family on None and on every
\* sequence of at most MaxInputLen elements drawn from the sentinels in
\* several spellings, libraries of each family and an unknown name.
ResolveElements ==
    { "all", "ALL", "default", "Default", "bogus",
      "sky130_fd_sc_hd", "sky130_fd_sc_hdll",
      "gf180mcu_fd_io", "gf180mcu_osu_sc_gp9t3v3", "sg13g2_io" }

SeqsUpTo(S, n) == UNION { [1..k -> S] : k \in 0..n }

ResolveInputs == {InputNone} \cup { Input(items) : items \in SeqsUpTo(ResolveElements, MaxInputLen) }

StoreUntouched ==
    /\ ProcessesIdle
    /\ pdk_root = FetchRoot
    /\ versionDir = [ v \in Versions |-> NoDir ]
    /\ finalPath = [ v \in VariantSet |-> Absent ]
    /\ current = NoFile
    /\ lastOp = NoOp

InitResolve ==
    /\ StoreUntouched
    /\ catalogue = NoCatalogue
    /\ resolution \in [pdk : FamilyNames, input : ResolveInputs, result : {NotRun}]

resolve_libraries_call ==
    /\ resolution.result = NotRun
    /\ resolution' = [resolution EXCEPT
                        !.result = resolve_libraries(by_name[resolution.pdk], resolution.input)]
    /\ UNCHANGED << pdk_root, versionDir, finalPath, current, lastOp, catalogue,
                    processes >>

NextResolve == resolve_libraries_call

SpecResolve == InitResolve /\ [][NextResolve]_vars


\* ---------------------------------------- common.py: Version, _from_github
\* Instants are integers; datetime.min is below every date a release has.
datetime_min == 0
Dates == 1..MaxDate
NoneDate == [is_none |-> TRUE, t |-> 0]
Date(t) == [is_none |-> FALSE, t |-> t]

\* commit_date or datetime.min
or_min(date) == IF date.is_none THEN datetime_min ELSE date.t

Version(name, family, commit_date, upload_date) ==
    [name |-> name, pdk |-> family, commit_date |-> commit_date, upload_date |-> upload_date]

\* Version.__lt__
lt_by_upload_date(self, rhs) == or_min(self.upload_date) < or_min(rhs.upload_date)

lt(self, rhs) == or_min(self.commit_date) < or_min(rhs.commit_date)

\* list.sort(reverse=True): a stable sort into descending order that
\* compares with __lt__ only; insert puts x in front of the first element
\* that is less than x.
insert(sorted, x) ==
    LET smaller == { i \in 1..Len(sorted) : lt(sorted[i], x) }
        at == IF smaller = {} THEN Len(sorted) + 1
              ELSE CHOOSE i \in smaller : \A j \in smaller : i <= j
    IN  SubSeq(sorted, 1, at - 1) \o <<x>> \o SubSeq(sorted, at, Len(sorted))

RECURSIVE sort_reverse(_)
sort_reverse(list) ==
    IF Len(list) = 0 THEN <<>>
    ELSE insert(sort_reverse(SubSeq(list, 1, Len(list) - 1)), list[Len(list)])

\* A tag is the sequence of its pieces, the separator "-" being a piece;
\* str.split("-") gives the pieces between separators.  No tag of the
\* model has two pieces without a separator between them, so a part is
\* one piece or the empty string.
RECURSIVE split(_)
split(tag) ==
    LET dashes == { i \in 1..Len(tag) : tag[i] = "-" }
    IN  IF dashes = {} THEN << tag >>
        ELSE LET i == CHOOSE k \in dashes : \A j \in dashes : k <= j
             IN  << SubSeq(tag, 1, i - 1) >> \o split(SubSeq(tag, i + 1, Len(tag)))

text(part) == IF Len(part) = 0 THEN "" ELSE part[1]

\* commit_rx.search(body): the date that follows "released on", if any.
commit_rx_search(body) ==
    LET hits == { i \in 1..(Len(body) - 1) : body[i] = "released on" }
    IN  IF hits = {} THEN NoneDate
        ELSE Date(body[(CHOOSE i \in hits : \A j \in hits : i <= j) + 1])

Release(draft, tag_name, body, published_at) ==
    [draft |-> draft, tag_name |-> tag_name, body |-> body, published_at |-> published_at]

\* The result of _from_github: the dictionary family -> list of Versions,
\* or the ValueError of unpacking a split that has not two parts.
Fetched(by_pdk) == [kind |-> "dict", by_pdk |-> by_pdk]
FetchRaised == [kind |-> "raise", by_pdk |-> <<>>]

RECURSIVE from_github_loop(_, _, _)
from_github_loop(releases, i, rvs_by_pdk) ==
    IF i > Len(releases)
    THEN Fetched([ family \in DOMAIN rvs_by_pdk |-> sort_reverse(rvs_by_pdk[family]) ])
    ELSE IF releases[i].draft THEN from_github_loop(releases, i + 1, rvs_by_pdk)
    ELSE LET parts == split(releases[i].tag_name)
         IN  IF Len(parts) # 2 THEN FetchRaised
             ELSE LET family == text(parts[1])
                      hash == text(parts[2])
                      remote_version ==
                          Version(hash, family, commit_rx_search(releases[i].body),
                                  Date(releases[i].published_at))
                      sofar == IF family \in DOMAIN rvs_by_pdk
                               THEN rvs_by_pdk[family] ELSE <<>>
                  IN  from_github_loop(releases, i + 1,
                          [ f \in DOMAIN rvs_by_pdk \cup {family} |->
                              IF f = family THEN Append(sofar, remote_version)
                              ELSE rvs_by_pdk[f] ])

from_github(releases) == from_github_loop(releases, 1, <<>>)

\* --- SpecCatalogue: _from_github on every list of at most MaxReleases
\* releases.  A release is a draft or not, carries a tag with one
\* separator, none or two, and a body with or without a commit date; it
\* was published the later the older its commit, last of all when the
\* body gives no date.
Tags ==
    { <<"sky130", "-", "a1">>, <<"gf180mcu", "-", "a1">>,
      <<"sky130a1">>, <<"ihp", "-", "sg13g2", "-", "a1">> }
Bodies == { <<"build">> } \cup { <<"build", "released on", t>> : t \in Dates }
PublishedAt(body) ==
    IF commit_rx_search(body).is_none THEN MaxDate + 1
    ELSE MaxDate + 1 - commit_rx_search(body).t

ReleaseShapes ==
    { Release(FALSE, tag, body, PublishedAt(body)) : tag \in Tags, body \in Bodies }
      \cup { Release(TRUE, tag, <<"build">>, MaxDate + 1) :
                tag \in { <<"sky130", "-", "a1">>, <<"sky130a1">> } }

InitCatalogue ==
    /\ StoreUntouched
    /\ resolution = NoResolution
    /\ catalogue \in [releases : SeqsUpTo(ReleaseShapes, MaxReleases), result : {NotFetched}]

from_github_call ==
    /\ catalogue.result = NotFetched
    /\ catalogue' = [catalogue EXCEPT !.result = from_github(catalogue.releases)]
    /\ UNCHANGED << pdk_root, versionDir, finalPath, current, lastOp, resolution,
                    processes >>

NextCatalogue == from_github_call

SpecCatalogue == InitCatalogue /\ [][NextCatalogue]_vars


\* =================================================================== claims
IsPrefix(p, q) == Len(p) <= Len(q) /\ SubSeq(q, 1, Len(p)) = p

\* The path a variant symlink leads to, and whether that is inside the
\* directory of a version.
LinkTarget(variant) == normjoin(pdk_root, finalPath[variant].text)
LinkInto(path, version) ==
    /\ path.kind = "link"
    /\ IsPrefix(get_version_dir(pdk_root, pdk, version), normjoin(pdk_root, path.text))
PointsInto(variant, version) == LinkInto(finalPath[variant], version)

EnableFailed(op) == op.op = "enable" /\ op.outcome \in {"error", "interrupted"}

\* C1: after enable(v1) has succeeded and enable(v2) is then run, for two
\* distinct installed versions, no variant symlink points into v1's
\* directory and the marker file contains exactly v2.
C1_SecondEnableReplacesEveryLink ==
    [][ ( /\ lastOp.op = "enable" /\ lastOp.outcome = "ok"
          /\ lastOp'.op = "enable" /\ lastOp'.version # lastOp.version
          /\ versionDir[lastOp.version].exists
          /\ versionDir[lastOp'.version].exists )
        => ( /\ \A variant \in VariantSet : ~LinkInto(finalPath'[variant], lastOp.version)
             /\ current' = File(lastOp'.version) ) ]_vars

\* C2: if the marker file exists, the version directory it names exists.
C2_MarkerNamesInstalledVersion ==
    current.exists =>
        \E version \in Versions : current.text = version /\ versionDir[version].exists

C2_Witness ==
    /\ lastOp.op = "rm" /\ lastOp.wasCurrent /\ lastOp.outcome = "ok"
    /\ ~versionDir[lastOp.version].exists
    /\ \E other \in Versions : versionDir[other].exists

\* The state Active(version) of the activation state machine: the marker
\* file holds the version and every variant has a symlink into it.
Active(version) ==
    /\ current = File(version)
    /\ \A variant \in VariantSet : PointsInto(variant, version)

\* C3: uninstalling the version that is active succeeds and leaves the
\* family inactive: the marker file does not exist, no variant path is a
\* symlink and the version directory is gone.
C3_UninstallCurrentLeavesInactive ==
    [][ (lastOp'.op = "rm" /\ Active(lastOp'.version))
        => ( /\ lastOp'.outcome = "ok"
             /\ ~current'.exists
             /\ \A variant \in VariantSet : finalPath'[variant].kind # "link"
             /\ ~versionDir'[lastOp'.version].exists ) ]_vars

C3_Witness ==
    /\ lastOp.op = "rm" /\ lastOp.wasCurrent /\ lastOp.outcome = "ok"
    /\ \A variant \in VariantSet : finalPath[variant] = Absent

\* C4: between commands, when the marker file names version v, every
\* variant has a symlink at <pdk_root>/<variant> that points into v's
\* version directory.
C4_MarkerAndLinksAgree ==
    \A version \in Versions :
        current = File(version) =>
            \A variant \in VariantSet : PointsInto(variant, version)

\* C5 as stated: enable ends with the filesystem-conflict error whenever a
\* variant path exists and is not a symlink, that path is left as it is and
\* the marker file is not written.
HasConflict == \E variant \in VariantSet : finalPath[variant].kind = "dir"
ConflictKept ==
    /\ \A variant \in VariantSet :
          finalPath[variant].kind = "dir" => finalPath'[variant] = finalPath[variant]
    /\ current' = current

C5_ConflictAlwaysReported ==
    [][ (lastOp'.op = "enable" /\ HasConflict)
        => (lastOp'.outcome = "conflict" /\ ConflictKept) ]_vars

\* C5 amended: with a variant path that exists and is not a symlink, enable
\* never succeeds, never touches that path and never writes the marker
\* file; it ends with the filesystem-conflict error whenever the requested
\* version is installed or its download has completed (under
\* enable_or_build: its build and push), and otherwise with the failure of
\* that retrieval.
C5_ConflictReportedOnceVersionPresent ==
    [][ (lastOp'.op = "enable" /\ HasConflict)
        => ( /\ lastOp'.outcome # "ok"
             /\ ConflictKept
             /\ lastOp'.retrieval \in {"installed", "fetched"}
                   => lastOp'.outcome = "conflict"
             /\ lastOp'.retrieval = "built"
                   => lastOp'.outcome \in {"conflict", "exception"}
             /\ lastOp'.outcome = "conflict" => versionDir'[lastOp'.version].exists ) ]_vars

C5_Witness ==
    /\ lastOp.op = "enable" /\ lastOp.outcome = "conflict"
    /\ \E variant \in VariantSet : finalPath[variant].kind = "dir"

\* C6: after a successful activation, symlinks exist exactly at the variants
\* whose directory is in the version's payload; a variant the payload lacks
\* has no symlink.
C6_AbsentVariantSkipped ==
    (lastOp.op = "enable" /\ lastOp.outcome = "ok") =>
        \A variant \in VariantSet :
            finalPath[variant].kind = "link"
                <=> variant \in VariantDirs(versionDir[lastOp.version].files)

\* C7: after enable(v) has succeeded, the text of every variant symlink is
\* a relative path which, resolved against the PDK root, is
\* <pdk_root>/volare/sky130/versions/<v>/<variant>.
C7_LinksAreRelativeIntoVersion ==
    (lastOp.op = "enable" /\ lastOp.outcome = "ok") =>
        \A variant \in VariantSet :
            /\ finalPath[variant].kind = "link"
            /\ ~isabs(finalPath[variant].text)
            /\ LinkTarget(variant)
                 = pdk_root \o <<"volare", "sky130", "versions", lastOp.version, variant>>

C7_Witness ==
    /\ lastOp.op = "enable" /\ lastOp.outcome = "ok"
    /\ \A variant \in VariantSet : finalPath[variant].kind = "link"
    /\ current = File(lastOp.version)


\* C8: an enable that directly follows one with the same version and
\* library selection whose retrieval succeeded makes no network request
\* and leaves the version directory as it is.
C8_SecondRetrievalIsLocal ==
    [][ ( /\ lastOp.op = "enable" /\ lastOp.retrieval \in {"fetched", "built"}
          /\ lastOp'.op = "enable"
          /\ lastOp'.version = lastOp.version /\ lastOp'.libs = lastOp.libs )
        => (lastOp'.requests = 0 /\ versionDir' = versionDir) ]_vars

C8_Witness ==
    /\ lastOp.op = "enable" /\ lastOp.again
    /\ lastOp.retrieval = "installed"
    /\ versionDir[lastOp.version].exists

\* The library set S that a selection asks for (resolve_libraries), as far
\* as releases carry it in the model.
RequestedLibraries(include_libraries) ==
    ModelLibs \cap
        IF include_libraries.is_none THEN Range(sky130.default_includes)
        ELSE IF "all" \in include_libraries.items THEN Range(sky130.all_libraries)
        ELSE include_libraries.items

\* C9: after the retrieval step of enable has returned successfully for
\* library set S, every library of S is in the version directory: some
\* variant contains its reference subtree.
C9_RequestedLibrariesPresent ==
    (lastOp.op = "enable" /\ lastOp.retrieval \in {"installed", "fetched", "built"}) =>
        \A lib \in RequestedLibraries(lastOp.libs) :
            \E variant \in VariantSet : <<variant, lib>> \in versionDir[lastOp.version].files

\* C10: a download or unpacking that ends in an exception or a keyboard
\* interrupt leaves no version directory behind and every other directory
\* as it was, and the next enable of that version makes network requests
\* again.
C10_FailedRetrievalLeavesNothing ==
    [][ /\ EnableFailed(lastOp')
            => (~versionDir'[lastOp'.version].exists /\ versionDir' = versionDir)
        /\ (EnableFailed(lastOp) /\ lastOp'.op = "enable"
              /\ lastOp'.version = lastOp.version)
            => lastOp'.requests >= 1 ]_vars

C10_Witness ==
    /\ EnableFailed(lastOp) /\ lastOp.outcome = "interrupted"
    /\ lastOp.requests >= 3
    /\ ~versionDir[lastOp.version].exists


\* ------------------------------------------------ retrieval: C11 .. C13
\* C11: an enable of a version that has no directory, for which the host
\* has no release, with the build fallback disabled, ends with the
\* not-found error; afterwards the version still has no directory and the
\* marker file and every variant path are as they were.
C11_NotFoundChangesNothing ==
    [][ ( /\ lastOp'.op = "enable"
          /\ ~versionDir[lastOp'.version].exists
          /\ lastOp'.asked.status >= 400
          /\ ~lastOp'.asked.build_if_not_found )
        => ( /\ lastOp'.outcome = "not_found"
             /\ ~versionDir'[lastOp'.version].exists
             /\ versionDir' = versionDir
             /\ current' = current
             /\ finalPath' = finalPath ) ]_vars

C11_Witness ==
    /\ lastOp.op = "enable" /\ lastOp.outcome = "not_found"
    /\ lastOp.asked.status = 404 /\ ~lastOp.asked.build_if_not_found
    /\ ~versionDir[lastOp.version].exists
    /\ current.exists
    /\ \A variant \in VariantSet : finalPath[variant].kind = "link"

\* The positions of the calls to fn in a sequence of calls.
CallsTo(calls, fn) == { i \in 1..Len(calls) : calls[i].fn = fn }
ReturnedBefore(calls, fn, i) ==
    \E j \in CallsTo(calls, fn) : j < i /\ calls[j].ret = "ok"

HasArchive(assets, include_libraries, lib) ==
    \/ Asset(lib, ".tar.zst") \in Range(assets)
    \/ /\ include_libraries.is_none
       /\ default_tar_xz \in Range(assets)
       /\ lib \in Range(sky130.default_includes)

\* C13: when the release exists on the host but has no archive for one of
\* the requested libraries, enable's retrieval ends in an error and does
\* not complete without that library; the not-found outcome and the build
\* fallback occur only when the whole release is absent.
C13_MissingArchiveIsAnError ==
    lastOp.op = "enable" =>
        /\ ( /\ lastOp.asked.status = 200
             /\ \E lib \in RequestedLibraries(lastOp.libs) :
                   ~HasArchive(lastOp.asked.assets, lastOp.libs, lib) )
            => ( /\ lastOp.retrieval = "failed"
                 /\ lastOp.outcome \in {"exception", "error", "interrupted"} )
        /\ ( \/ lastOp.outcome = "not_found"
             \/ CallsTo(lastOp.asked.calls, "build") # {} )
            => lastOp.asked.status >= 400


\* ------------------------------------------- library resolution: C14 .. C17
Resolved == resolution.result # NotRun
ResolvedFamily == by_name[resolution.pdk]

\* C14: for every family, an input that contains the sentinel "all", at
\* any position and next to any other elements, known or unknown, resolves
\* to exactly the family's complete library set.
C14_AllGivesCompleteSet ==
    ( /\ Resolved
      /\ \E i \in 1..Len(resolution.input.items) : resolution.input.items[i] = "all" )
    => resolution.result = Returned(Range(ResolvedFamily.all_libraries))

\* Two outcomes are the same when both are the same set or both are the
\* unknown-library error.
SameOutcome(a, b) == a.kind = b.kind /\ a.set = b.set

\* A set as an iterable: its elements in the order of a listing.
InOrderOf(listing, set) == SelectSeq(listing, LAMBDA x : x \in set)
Reverse(seq) == [ i \in 1..Len(seq) |-> seq[Len(seq) + 1 - i] ]

\* C15: resolution gives the same outcome (the same set or the same error)
\* for every permutation of the input and with any element repeated, and
\* resolving a set that was returned gives that set again.
C15_OrderIndependentIdempotent ==
    (Resolved /\ ~resolution.input.is_none) =>
        LET items == resolution.input.items
            again(seq) == resolve_libraries(ResolvedFamily, Input(seq))
        IN  /\ \A f \in Permutations(1..Len(items)) :
                  SameOutcome(again([ i \in 1..Len(items) |-> items[f[i]] ]),
                              resolution.result)
            /\ \A i \in 1..Len(items) :
                  SameOutcome(again(Append(items, items[i])), resolution.result)
            /\ resolution.result.kind = "set" =>
                  LET seq == InOrderOf(ResolvedFamily.all_libraries, resolution.result.set)
                  IN  /\ again(seq) = resolution.result
                      /\ again(Reverse(seq)) = resolution.result

\* C16: for every registered family, resolve_libraries(None) and
\* resolve_libraries(["default"]) return the same set, which is exactly
\* the family's default library subset.
C16_NoneIsDefault ==
    ( /\ Resolved
      /\ resolution.input \in {InputNone, Input(<<"default">>)} )
    => /\ resolution.result = Returned(Range(ResolvedFamily.default_includes))
       /\ resolve_libraries(ResolvedFamily, InputNone)
            = resolve_libraries(ResolvedFamily, Input(<<"default">>))
       /\ resolution.pdk = "sky130"
            => resolution.result.set
                 = { "sky130_fd_io", "sky130_fd_pr", "sky130_fd_sc_hd",
                     "sky130_fd_sc_hvl", "sky130_ml_xx_hd", "sky130_sram_macros" }
       /\ resolution.pdk = "ihp_sg13g2"
            => resolution.result.set
                 = { "sg13g2_io", "sg13g2_pr", "sg13g2_sram", "sg13g2_stdcell" }

C16_Witness ==
    /\ Resolved /\ resolution.input = InputNone
    /\ resolution.pdk = "gf180mcu"
    /\ resolution.result.kind = "set"
    /\ Cardinality(resolution.result.set) = 5
    /\ "gf180mcu_osu_sc_gp9t3v3" \notin resolution.result.set

\* C17: for every family and every name that is neither in the family's
\* library set nor one of the sentinels "all" and "default" (which the
\* code recognises in any letter case), resolve_libraries([name]) raises
\* the unknown-library error for that name and returns no set.
C17_UnknownNameRaises ==
    ( /\ Resolved /\ ~resolution.input.is_none
      /\ Len(resolution.input.items) = 1
      /\ resolution.input.items[1] \notin Range(ResolvedFamily.all_libraries)
      /\ lower(resolution.input.items[1]) \notin {"all", "default"} )
    => resolution.result = Raised(resolution.input.items[1])

C17_Witness ==
    /\ Resolved
    /\ resolution.pdk = "gf180mcu"
    /\ resolution.input = Input(<<"sky130_fd_sc_hd">>)
    /\ resolution.result.kind = "raise"


\* ------------------------------------------------ remote catalogue: C18, C19
CatalogueFetched == catalogue.result # NotFetched

\* The releases of the input that are no drafts and whose tag has exactly
\* one separator, under a family.
Separators(tag) == { i \in 1..Len(tag) : tag[i] = "-" }
WellFormed(release) == ~release.draft /\ Cardinality(Separators(release.tag_name)) = 1
Malformed(release) == ~release.draft /\ Cardinality(Separators(release.tag_name)) # 1
ReleasesOfFamily(family) ==
    { i \in 1..Len(catalogue.releases) :
        /\ WellFormed(catalogue.releases[i])
        /\ catalogue.releases[i].tag_name[1] = family }

\* C18: every per-family list of the catalogue is in descending order of
\* commit date alone: a Version with a later commit date comes before one
\* with an earlier date, every Version without a commit date comes after
\* every dated one, and the list holds one Version per release of the
\* family.
C18_CatalogueNewestFirst ==
    catalogue.result.kind = "dict" =>
        \A family \in DOMAIN catalogue.result.by_pdk :
            LET list == catalogue.result.by_pdk[family]
            IN  /\ Len(list) = Cardinality(ReleasesOfFamily(family))
                /\ \A i, j \in 1..Len(list) :
                      i < j =>
                        /\ list[i].commit_date.is_none => list[j].commit_date.is_none
                        /\ ~list[j].commit_date.is_none
                              => list[i].commit_date.t >= list[j].commit_date.t

C18_Witness ==
    /\ catalogue.result.kind = "dict"
    /\ Len(catalogue.releases) = 3
    /\ [ i \in 1..3 |-> commit_rx_search(catalogue.releases[i].body) ]
          = << NoneDate, Date(1), Date(2) >>
    /\ "sky130" \in DOMAIN catalogue.result.by_pdk
    /\ [ i \in 1..3 |-> catalogue.result.by_pdk["sky130"][i].commit_date ]
          = << Date(2), Date(1), NoneDate >>

\* C19: when some release that is no draft has a tag with no separator or
\* with more than one, the catalogue fetch still returns, and every other
\* release that is no draft is in the list of its family.
C19_MalformedTagSkipped ==
    ( /\ CatalogueFetched
      /\ \E i \in 1..Len(catalogue.releases) : Malformed(catalogue.releases[i]) )
    => /\ catalogue.result.kind = "dict"
       /\ \A i \in 1..Len(catalogue.releases) :
             WellFormed(catalogue.releases[i]) =>
                LET family == catalogue.releases[i].tag_name[1]
                IN  /\ family \in DOMAIN catalogue.result.by_pdk
                    /\ \E k \in 1..Len(catalogue.result.by_pdk[family]) :
                          catalogue.result.by_pdk[family][k].name
                            = catalogue.releases[i].tag_name[3]


\* ------------------------------------------------------------ uninstall: C20
\* C20: rm of a version whose directory does not exist ends with the
\* "not installed" error and changes nothing: the marker file, every
\* variant path and every version directory are as before.
C20_UninstallAbsentChangesNothing ==
    [][ (lastOp'.op = "rm" /\ ~versionDir[lastOp'.version].exists)
        => ( /\ lastOp'.outcome = "not_installed"
             /\ current' = current
             /\ finalPath' = finalPath
             /\ versionDir' = versionDir ) ]_vars

C20_Witness ==
    /\ lastOp.op = "rm" /\ lastOp.outcome = "not_installed"
    /\ ~versionDir[lastOp.version].exists
    /\ \E other \in Versions :
          /\ versionDir[other].exists
          /\ current = File(other)
          /\ \A variant \in VariantSet : PointsInto(variant, other)


\* ------------------------------------------ the store with its surroundings
\* manage.py prune_cmd: version.uninstall() is called without the pdk_root
\* argument, which raises TypeError before uninstall's body runs; the
\* except clause prints the failure and the loop goes on.
uninstall_without_pdk_root(fs, version) == [fs |-> fs, outcome |-> "exception"]

RECURSIVE manage_prune_loop(_, _, _)
manage_prune_loop(fs, order, i) ==
    IF i > Len(order) THEN fs
    ELSE IF ~is_installed(fs, order[i]) \/ is_current(fs, order[i])
         THEN manage_prune_loop(fs, order, i + 1)
    ELSE manage_prune_loop(uninstall_without_pdk_root(fs, order[i]).fs, order, i + 1)

manage_prune_cmd ==
    \E order \in ListdirOrders :
        /\ SetFS(manage_prune_loop(fsNow, order, 1))
        /\ lastOp' = Op("manage_prune", "", NoneLibs, "ok", 0, "none", FALSE, FALSE, NotAsked)

\* Version(version, pdk).unset_current(pdk_root), called on its own.
unset_current_call ==
    \E version \in Versions :
        LET r == unset_current(fsNow, version)
        IN  /\ SetFS(r.fs)
            /\ lastOp' = Op("unset_current", version, NoneLibs,
                            IF r.raised THEN "exception" ELSE "ok", 0, "none",
                            is_installed(fsNow, version) /\ is_current(fsNow, version),
                            FALSE, NotAsked)

\* volare output: exit code 1 when get_current gives None, and the name of
\* the Version it gives otherwise (the wording depends on isatty, the
\* decision does not).
output_cmd ==
    LET version == get_current(fsNow)
    IN  /\ SetFS(fsNow)
        /\ lastOp' = Op("output", version.name, NoneLibs,
                        IF version.is_none THEN "exit_1" ELSE "printed",
                        0, "none", FALSE, FALSE, NotAsked)

\* The surroundings: the user puts a directory where a variant path is, and
\* a marker file is left without a version name in it (open(current_file,
\* "w") of enable truncates the file before the name is written).
Surroundings == Op("surroundings", "", NoneLibs, "ok", 0, "none", FALSE, FALSE, NotAsked)

place_directory ==
    \E variant \in VariantSet, dir \in Clutter :
        /\ finalPath[variant] # dir
        /\ SetFS([fsNow EXCEPT !.finalPath[variant] = dir])
        /\ lastOp' = Surroundings

blank_marker ==
    \E blank \in Blank :
        /\ current # File(blank)
        /\ SetFS([fsNow EXCEPT !.current = File(blank)])
        /\ lastOp' = Surroundings

\* --- SpecManage: every version under one PDK root, complete releases and
\* no failing download; the commands of the store, both prune commands,
\* unset_current on its own, the output query and the surroundings.
ManageReleases == { [status |-> 200, assets |-> FullAssets, variants |-> VariantSet] }

manage_enable_cmd == enable_cmd_with(Versions, {NoneLibs}, ManageReleases, {NoFail})
manage_rm_cmd == rm_cmd_with(Versions)

NextManage ==
    \/ manage_enable_cmd \/ manage_rm_cmd \/ prune_cmd \/ manage_prune_cmd
    \/ unset_current_call \/ output_cmd \/ place_directory \/ blank_marker

SpecManage == InitFetch /\ [][NextManage]_vars

\* ------------------------------------------- build/git_multi_clone.py: Repo
\* What git writes to stderr under --progress, as the reading loop sees it:
\* pieces of text, some of them "Receiving objects: <n>%", and the line ends
\* "\n" and "\r".  git's percentages never go down.
Percents == {50, 100}
OutputTokens ==
    [kind : {"eol", "cr", "text"}, percent : {0}] \cup [kind : {"recv"}, percent : Percents]

NonDecreasing(ns) == \A i, j \in 1..Len(ns) : i <= j => ns[i] <= ns[j]

Received(output) ==
    LET at == { i \in 1..Len(output) : output[i].kind = "recv" }
        RECURSIVE pick(_)
        pick(i) == IF i > Len(output) THEN <<>>
                   ELSE IF i \in at THEN <<output[i].percent>> \o pick(i + 1)
                   ELSE pick(i + 1)
    IN  pick(1)

GitOutputs ==
    { o \in UNION { [1..n -> OutputTokens] : n \in 0..MaxOutput } :
        NonDecreasing(Received(o)) }

\* ro_rx.search(buffer): the first "Receiving objects: <n>%" of the buffer.
ro_rx_search(buffer) ==
    LET at == { i \in 1..Len(buffer) : buffer[i].kind = "recv" }
    IN  IF at = {} THEN <<>>
        ELSE << buffer[CHOOSE i \in at : \A j \in at : i <= j].percent >>

\* The reading loop of clone, pull and init_submodule: at every line end the
\* buffer is searched and emptied; what follows the last line end is never
\* searched.
RECURSIVE read_progress(_, _, _)
read_progress(output, i, buffer) ==
    IF i > Len(output) THEN <<>>
    ELSE IF output[i].kind \in {"eol", "cr"}
         THEN ro_rx_search(buffer) \o read_progress(output, i + 1, <<>>)
    ELSE read_progress(output, i + 1, Append(buffer, output[i]))

\* One git invocation of a Repo method: through check_output (a non-zero
\* exit raises CalledProcessError), through check_output inside try/except
\* Exception: pass, or through Popen and wait() (the exit code is not looked
\* at).  first and last are what the method passes to its callback before
\* and after the reading loop.
Checked(cmd) == [cmd |-> cmd, mode |-> "check_output", first |-> <<>>, last |-> <<>>]
Ignored(cmd) == [cmd |-> cmd, mode |-> "ignored", first |-> <<>>, last |-> <<>>]
Popen(cmd, first, last) == [cmd |-> cmd, mode |-> "Popen", first |-> first, last |-> last]

clone == << Popen("clone", <<0>>, <<>>), Checked("submodule_init") >>
pristine == << Checked("clean"), Checked("reset") >>
pull == << Checked("checkout_default"), Popen("pull", <<0>>, <<100>>),
           Checked("submodule_init") >>
clone_if_not_exist(path_exists) == IF path_exists THEN pristine \o pull ELSE clone
checkout_commit_keeping_branch == << Checked("checkout_default"), Checked("checkout_new") >>

checkout_commit ==
    << Checked("checkout_default"), Ignored("branch_delete"), Checked("checkout_new") >>
init_submodule == << Popen("submodule_update", <<>>, <<>>) >>
init_submodule_if_not_exist(git_exists) ==
    IF git_exists
    THEN << [cmd |-> "submodule_update_remote", mode |-> "check_output",
             first |-> <<>>, last |-> <<100>>] >>
    ELSE init_submodule

\* GitMultiClone.clone and GitMultiClone.clone_submodule.
GitMultiClone_clone(path_exists) == clone_if_not_exist(path_exists) \o checkout_commit
clone_submodule(git_exists) == init_submodule_if_not_exist(git_exists)

\* The working copy at Repo.path: whether it is there, the commits it
\* holds, the commit the branch `current` is at ("" when there is no such
\* branch), the branch checked out and whether the submodule is checked out.
Commits == {"c1", "c2"}
Repo(there, objects, current_branch, head, submodule) ==
    [exists |-> there, objects |-> objects, current |-> current_branch,
     head |-> head, submodule |-> submodule]
NoRepo == Repo(FALSE, {}, "", "", FALSE)

\* What git does when nothing outside it goes wrong: its exit code and the
\* working copy afterwards.  Every command but clone runs with cwd=path.
git(cmd, repo, commit, remote) ==
    LET Exit(rc, r) == [rc |-> rc, repo |-> r, oserror |-> FALSE]
    IN  IF cmd = "clone" THEN Exit(0, Repo(TRUE, remote, "", "default", FALSE))
        ELSE IF ~repo.exists THEN [rc |-> 1, repo |-> repo, oserror |-> TRUE]
        ELSE CASE cmd = "pull" -> Exit(0, [repo EXCEPT !.objects = @ \cup remote])
               [] cmd = "checkout_default" -> Exit(0, [repo EXCEPT !.head = "default"])
               [] cmd = "branch_delete" ->
                     IF repo.current = "" \/ repo.head = "current" THEN Exit(1, repo)
                     ELSE Exit(0, [repo EXCEPT !.current = ""])
               [] cmd = "checkout_new" ->
                     IF repo.current # "" \/ commit \notin repo.objects THEN Exit(1, repo)
                     ELSE Exit(0, [repo EXCEPT !.current = commit, !.head = "current"])
               [] cmd \in {"submodule_update", "submodule_update_remote"} ->
                     Exit(0, [repo EXCEPT !.submodule = TRUE])
               [] OTHER -> Exit(0, repo)

\* A task running its invocations in order.  The invocation numbered
\* fail_at exits non-zero for a reason outside the model (network, disk) and
\* leaves the working copy as it was.
Ran(cmd, mode, rc) == [cmd |-> cmd, mode |-> mode, rc |-> rc]

RECURSIVE run(_, _, _, _, _, _, _)
run(steps, i, st, commit, remote, output, fail_at) ==
    IF i > Len(steps) THEN st
    ELSE LET step == steps[i]
             g == IF i = fail_at /\ (step.cmd = "clone" \/ st.repo.exists)
                  THEN [rc |-> 1, repo |-> st.repo, oserror |-> FALSE]
                  ELSE git(step.cmd, st.repo, commit, remote)
             log == Append(st.log, Ran(step.cmd, step.mode, g.rc))
             raised(error) ==
                 [st EXCEPT !.log = log, !.outcome = "raised", !.error = error]
         IN  IF step.mode = "Popen"
             THEN run(steps, i + 1,
                      [st EXCEPT !.repo = g.repo, !.log = log,
                                 !.callbacks = @ \o step.first
                                                 \o read_progress(output, 1, <<>>)
                                                 \o step.last],
                      commit, remote, output, fail_at)
             ELSE IF g.oserror /\ step.mode # "ignored" THEN raised("OSError")
             ELSE IF g.rc # 0 /\ step.mode # "ignored" THEN raised("CalledProcessError")
             ELSE run(steps, i + 1,
                      [st EXCEPT !.repo = g.repo, !.log = log,
                                 !.callbacks = @ \o step.last],
                      commit, remote, output, fail_at)

Started(repo) ==
    [repo |-> repo, log |-> <<>>, callbacks |-> <<>>, outcome |-> "returned", error |-> ""]

\* One task, from the call to its return or its exception.
Task(fn, before, commit, remote, output, fail_at, steps) ==
    LET r == run(steps, 1, Started(before), commit, remote, output, fail_at)
    IN  [pc |-> "done", fn |-> fn, before |-> before, commit |-> commit,
         fail_at |-> fail_at, output |-> output, repo |-> r.repo, log |-> r.log,
         callbacks |-> r.callbacks, outcome |-> r.outcome, error |-> r.error]

\* The variables the git tasks leave alone.
store == << pdk_root, versionDir, finalPath, current, lastOp, resolution, catalogue >>

\* --- SpecProgress: one clone, pull or submodule update in which every git
\* invocation exits with 0, for every output of git up to MaxOutput pieces.
Pulled == Repo(TRUE, Commits, "", "default", FALSE)

\* Repo.clone, Repo.pull and Repo.init_submodule_if_not_exist, each called
\* with a progress callback.
ProgressOperations ==
    { [fn |-> "clone", before |-> NoRepo, steps |-> clone],
      [fn |-> "pull", before |-> Pulled, steps |-> pull] }
      \cup { [fn |-> "init_submodule_if_not_exist",
               before |-> [Pulled EXCEPT !.submodule = git_exists],
               steps |-> init_submodule_if_not_exist(git_exists)] :
               git_exists \in BOOLEAN }

progress_call ==
    \E output \in GitOutputs, op \in ProgressOperations :
        /\ task = Idle
        /\ task' = Task(op.fn, op.before, "c1", Commits, output, 0, op.steps)
        /\ UNCHANGED << store, fanout, variant_build, session >>

NextProgress == progress_call

SpecProgress == InitFetch /\ [][NextProgress]_vars

\* --- SpecClone: one GitMultiClone.clone or clone_submodule task, for every
\* working copy it may find, every commit asked for, every state of the
\* remote and every invocation that may fail.
Repos ==
    {NoRepo} \cup { Repo(TRUE, objects, c, "default", FALSE) :
                      objects \in SUBSET Commits, c \in {""} \cup Commits }
TaskOutputs ==
    { <<>>, << [kind |-> "recv", percent |-> 100], [kind |-> "eol", percent |-> 0] >> }

clone_call ==
    \E before \in Repos, commit \in Commits, remote \in SUBSET Commits,
       output \in TaskOutputs :
        \E fail_at \in 0..Len(GitMultiClone_clone(before.exists)) :
            /\ task = Idle
            /\ before.current \in {""} \cup before.objects
            /\ task' = Task("clone", before, commit, remote, output, fail_at,
                            GitMultiClone_clone(before.exists))
            /\ UNCHANGED << store, fanout, variant_build, session >>

clone_submodule_call ==
    \E commit \in Commits, git_exists \in BOOLEAN, output \in TaskOutputs :
        \E fail_at \in 0..Len(clone_submodule(git_exists)) :
            /\ task = Idle
            /\ task' = Task("clone_submodule",
                            Repo(TRUE, Commits, commit, "current", git_exists),
                            commit, Commits, output, fail_at, clone_submodule(git_exists))
            /\ UNCHANGED << store, fanout, variant_build, session >>

NextClone == clone_call \/ clone_submodule_call

SpecClone == InitFetch /\ [][NextClone]_vars

\* ----------------------------------------------- build/sky130.py: get_sky130
\* The futures of the executor: number 0 is GitMultiClone.clone of the
\* repository, 1..MaxSubmodules are the clone_submodule tasks.  A future is
\* "none" until submitted, then "queued", "running" and at last "returned"
\* or "raised".
Futures == 0..MaxSubmodules
Finished == {"returned", "raised"}
Running(tasks) == { i \in Futures : tasks[i] = "running" }

\* Leaving `with ThreadPoolExecutor(...)`: shutdown(wait=True) returns when
\* no submitted task is queued or running.
shutdown_nowait(tasks) == TRUE

shutdown_wait(tasks) == \A i \in Futures : tasks[i] \in Finished \cup {"none"}

GetSky130(pc, jobs, submodules, tasks) ==
    [pc |-> pc, jobs |-> jobs, submodules |-> submodules, tasks |-> tasks]

\* build calls get_sky130, which returns repo_path at once when a repository
\* was given and otherwise opens the executor and submits the clone.
get_sky130_call ==
    \E jobs \in 1..MaxJobs, submodules \in 0..MaxSubmodules, using_repo \in BOOLEAN :
        /\ fanout = Idle
        /\ fanout' = IF using_repo
                      THEN GetSky130("returned", jobs, 0, [i \in Futures |-> "none"])
                      ELSE GetSky130("result", jobs, submodules,
                                     [i \in Futures |-> IF i = 0 THEN "queued" ELSE "none"])
        /\ UNCHANGED << store, task, variant_build, session >>

\* A worker thread of the executor takes the oldest queued task; there are
\* max_workers=jobs of them.
worker_start ==
    \E i \in Futures :
        /\ fanout.pc \notin {"idle"}
        /\ fanout.tasks[i] = "queued"
        /\ \A j \in Futures : fanout.tasks[j] = "queued" => i <= j
        /\ Cardinality(Running(fanout.tasks)) < fanout.jobs
        /\ fanout' = [fanout EXCEPT !.tasks[i] = "running"]
        /\ UNCHANGED << store, task, variant_build, session >>

worker_finish ==
    \E i \in Futures, end \in Finished :
        /\ fanout.pc \notin {"idle"}
        /\ fanout.tasks[i] = "running"
        /\ fanout' = [fanout EXCEPT !.tasks[i] = end]
        /\ UNCHANGED << store, task, variant_build, session >>

\* sky130_fut.result(): waits for the clone and re-raises what it raised.
future_result ==
    /\ fanout.pc = "result"
    /\ fanout.tasks[0] \in Finished
    /\ fanout' = [fanout EXCEPT !.pc = IF fanout.tasks[0] = "returned" THEN "find"
                                       ELSE "raising"]
    /\ UNCHANGED << store, task, variant_build, session >>

\* find libraries -type d -name latest, through check_output.
find_submodules ==
    \E found \in BOOLEAN :
        /\ fanout.pc = "find"
        /\ fanout' = [fanout EXCEPT !.pc = IF found THEN "submit" ELSE "raising"]
        /\ UNCHANGED << store, task, variant_build, session >>

\* The loop over sky130_submodules_filtered: one executor.submit each; the
\* futures are dropped.
submit_submodule ==
    \E i \in 1..MaxSubmodules :
        /\ fanout.pc = "submit"
        /\ i <= fanout.submodules
        /\ fanout.tasks[i] = "none"
        /\ \A j \in 1..(i - 1) : fanout.tasks[j] # "none"
        /\ fanout' = [fanout EXCEPT !.tasks[i] = "queued"]
        /\ UNCHANGED << store, task, variant_build, session >>

\* The end of the with block, reached after the loop or by an exception:
\* get_sky130 returns repo_path, or exits with EX_DATAERR in the except
\* clause.
executor_exit ==
    /\ \/ /\ fanout.pc = "submit"
          /\ \A i \in 1..MaxSubmodules : i <= fanout.submodules => fanout.tasks[i] # "none"
       \/ fanout.pc = "raising"
    /\ shutdown_wait(fanout.tasks)
    /\ fanout' = [fanout EXCEPT !.pc = IF fanout.pc = "submit" THEN "returned"
                                       ELSE "exited"]
    /\ UNCHANGED << store, task, variant_build, session >>

\* build goes on with build_sky130_timing and then build_variants.
build_continue ==
    /\ fanout.pc \in {"returned", "timing"}
    /\ fanout' = [fanout EXCEPT !.pc = IF fanout.pc = "returned" THEN "timing"
                                       ELSE "variants"]
    /\ UNCHANGED << store, task, variant_build, session >>

\* --- SpecFanout: one call of get_sky130 from build, for every number of
\* jobs and of submodules and every interleaving of the worker threads.
NextFanout ==
    \/ get_sky130_call \/ worker_start \/ worker_finish \/ future_result
    \/ find_submodules \/ submit_submodule \/ executor_exit \/ build_continue

SpecFanout == InitFetch /\ [][NextFanout]_vars

\* -------------------------------------------- build/sky130.py: build_variants
\* The containers docker_run_sh starts, named after the step that starts
\* them: "none" before docker run, then "running", then "exited" or, after
\* docker kill, "killed".
Steps == <<"configure", "make", "ownership">>
Containers == Range(Steps)

\* build_variants at one point of its run: the step it is in and where in
\* docker_run_sh ("call": not yet in, "added": id in docker_ids, "running":
\* inside check_call, "exited": check_call is back), docker_ids, the
\* containers, the exit code of the last one, the interrupt caught by the
\* inner except with the ids it passed to docker kill, and how the function
\* ended.
BuildVariants(sram, jobs) ==
    [pc |-> "running", sram |-> sram, jobs |-> jobs, step |-> "pull", at |-> "call",
     docker_ids |-> {}, containers |-> [c \in Containers |-> "none"], rc |-> 0,
     interrupted |-> FALSE, killed |-> {}, unfinished |-> {}, outcome |-> "running"]

Ended(b, outcome) == [b EXCEPT !.pc = "ended", !.outcome = outcome]

build_variants_call ==
    \E sram \in BOOLEAN, jobs \in 1..MaxJobs :
        /\ variant_build = Idle
        /\ variant_build' = BuildVariants(sram, jobs)
        /\ UNCHANGED << store, task, fanout, session >>

\* subprocess.check_call(["docker", "pull", magic_image]): a failure is a
\* CalledProcessError, which the outer except turns into exit(EX_DATAERR).
docker_pull ==
    \E pulled \in BOOLEAN :
        /\ variant_build.pc = "running" /\ variant_build.step = "pull"
        /\ variant_build' = IF pulled THEN [variant_build EXCEPT !.step = "configure"]
                             ELSE Ended(variant_build, "exit_EX_DATAERR")
        /\ UNCHANGED << store, task, fanout, session >>

\* docker_run_sh up to check_call: docker_ids.add(container_id), then docker
\* run starts the container.
docker_run_sh_start ==
    /\ variant_build.pc = "running" /\ variant_build.step \in Containers
    /\ variant_build.at \in {"call", "added"}
    /\ variant_build' =
          IF variant_build.at = "call"
          THEN [variant_build EXCEPT !.at = "added", !.docker_ids = @ \cup {variant_build.step}]
          ELSE [variant_build EXCEPT !.at = "running",
                                     !.containers[variant_build.step] = "running"]
    /\ UNCHANGED << store, task, fanout, session >>

\* The container exits and check_call comes back with its exit code.
container_exit ==
    \E rc \in {0, 1} :
        /\ variant_build.pc = "running" /\ variant_build.at = "running"
        /\ variant_build' = [variant_build EXCEPT !.at = "exited", !.rc = rc,
                                                  !.containers[variant_build.step] = "exited"]
        /\ UNCHANGED << store, task, fanout, session >>

\* docker_run_sh after check_call: docker_ids.remove(container_id) on both
\* paths; a non-zero exit is raised again as CalledProcessError, which only
\* the outer except catches.  After the ownership step the caught interrupt
\* is raised, or the function returns.
raise_interrupted(b) ==
    IF b.interrupted THEN Ended(b, "KeyboardInterrupt") ELSE Ended(b, "returned")

docker_run_sh_end ==
    /\ variant_build.pc = "running" /\ variant_build.at = "exited"
    /\ LET b == [variant_build EXCEPT !.docker_ids = @ \ {variant_build.step},
                                      !.at = "call"]
       IN  variant_build' =
             IF b.rc # 0 THEN Ended(b, "exit_EX_DATAERR")
             ELSE IF b.step = "configure" THEN [b EXCEPT !.step = "make"]
             ELSE IF b.step = "make" THEN [b EXCEPT !.step = "ownership"]
             ELSE raise_interrupted(b)
    /\ UNCHANGED << store, task, fanout, session >>

\* Ctrl-C, once.  Inside the try block (configure and make) the inner except
\* keeps the exception, calls docker kill for every id in docker_ids and
\* goes on to the ownership step; the ids stay in docker_ids.  During docker
\* pull and during the ownership step nothing catches it.
keyboard_interrupt ==
    /\ variant_build.pc = "running" /\ ~variant_build.interrupted
    /\ variant_build' =
          IF variant_build.step \in {"configure", "make"}
          THEN [variant_build EXCEPT
                  !.interrupted = TRUE,
                  !.killed = variant_build.docker_ids,
                  !.unfinished = { c \in Containers : variant_build.containers[c] = "running" },
                  !.containers = [ c \in Containers |->
                                      IF c \in variant_build.docker_ids /\ @[c] = "running"
                                      THEN "killed" ELSE @[c] ],
                  !.step = "ownership", !.at = "call"]
          ELSE Ended(variant_build, "KeyboardInterrupt")
    /\ UNCHANGED << store, task, fanout, session >>

\* --- SpecVariants: one call of build_variants with at most one Ctrl-C at any
\* point of it.
NextVariants ==
    \/ build_variants_call \/ docker_pull \/ docker_run_sh_start \/ container_exit
    \/ docker_run_sh_end \/ keyboard_interrupt

SpecVariants == InitFetch /\ [][NextVariants]_vars

\* ------------------------------------------------ github.py: GitHubSession
\* An Optional[str]: None, or a string.
Str(str) == [is_none |-> FALSE, text |-> str]

\* ~/.config/gh/hosts.yml: missing, without a github.com entry, with an
\* entry that has no oauth_token, or with a token.
HostsFiles ==
    { [exists |-> e, github_com |-> h, oauth_token |-> t] :
        e \in BOOLEAN, h \in BOOLEAN, t \in {NoneStr, Str("gh_token")} }

\* GitHubSession.Token.get_gh_token: the hosts file, overridden by a
\* GITHUB_TOKEN that is not blank, overridden by a -t value that is not
\* empty.
get_gh_token(override, env_token, hosts) ==
    LET gh == IF hosts.exists /\ hosts.github_com THEN hosts.oauth_token ELSE NoneStr
        env == IF ~env_token.is_none /\ strip(env_token.text) # "" THEN env_token ELSE gh
    IN  IF ~override.is_none /\ override.text # "" THEN override ELSE env

\* f"Bearer {github_token}"
Bearer(token) == [scheme |-> "Bearer", token |-> token]
NoHeader == [scheme |-> "", token |-> ""]

\* GitHubSession.__init__: the headers are made from the github_token
\* argument, and after that a missing argument is resolved and stored.
GitHubSession(github_token, override, env_token, hosts) ==
    [headers |-> IF ~github_token.is_none THEN Bearer(github_token.text) ELSE NoHeader,
     github_token |-> IF github_token.is_none
                      THEN get_gh_token(override, env_token, hosts)
                      ELSE github_token]

\* The process starts with its environment and the user's hosts file; no
\* -t value has been seen and no session exists.
Invoked(env_token, hosts) ==
    [pc |-> "cli", override |-> NoneStr, env_token |-> env_token, hosts |-> hosts,
     argument |-> NoneStr, github_token |-> NoneStr, headers |-> NoHeader,
     sent |-> NoHeader, requests |-> 0]

cli_invoke ==
    \E env_token \in {NoneStr, Str(""), Str("\n"), Str("env_token")}, hosts \in HostsFiles :
        /\ session = Idle
        /\ session' = Invoked(env_token, hosts)
        /\ UNCHANGED << store, task, fanout, variant_build >>

\* The callback of -t/--token: GitHubSession.Token.override = value.
set_token_cb ==
    \E value \in {NoneStr, Str(""), Str("t_token")} :
        /\ session.pc = "cli"
        /\ session' = [session EXCEPT !.pc = "command", !.override = value]
        /\ UNCHANGED << store, task, fanout, variant_build >>

\* GitHubSession() as get_release_links, _from_github and push create it, or
\* GitHubSession(github_token=...).
GitHubSession_init ==
    \E github_token \in {NoneStr, Str("argument_token")} :
        /\ session.pc = "command"
        /\ LET new == GitHubSession(github_token, session.override, session.env_token,
                                    session.hosts)
           IN  session' = [session EXCEPT !.pc = "session", !.argument = github_token,
                                          !.github_token = new.github_token,
                                          !.headers = new.headers]
        /\ UNCHANGED << store, task, fanout, variant_build >>

\* session.get / session.post / session.api: httpx sends the client's
\* headers; no caller passes an Authorization header of its own.
session_request ==
    /\ session.pc = "session"
    /\ session.requests < MaxRequests
    /\ session' = [session EXCEPT !.sent = session.headers, !.requests = @ + 1]
    /\ UNCHANGED << store, task, fanout, variant_build >>

\* --- SpecToken: one run of the command line, with every state of the three
\* token sources, one session and its requests.
NextToken == cli_invoke \/ set_token_cb \/ GitHubSession_init \/ session_request

SpecToken == InitFetch /\ [][NextToken]_vars

\* ------------------------------------------------------- claims C21..C30
\* C21: unset_current called on the version that is active (installed, the
\* marker holds its name, every variant path a symlink into it) removes every
\* variant symlink and the marker file; called on a version that is not
\* installed or not current it leaves the marker file and every variant path
\* as they were.
C21_DeactivationOnlyFromActive ==
    [][ lastOp'.op = "unset_current"
        => ( /\ (versionDir[lastOp'.version].exists /\ Active(lastOp'.version))
                   => ( /\ \A variant \in VariantSet : finalPath'[variant] = Absent
                        /\ current' = NoFile )
             /\ (~versionDir[lastOp'.version].exists \/ current # File(lastOp'.version))
                   => (finalPath' = finalPath /\ current' = current) ) ]_vars

C21_Witness ==
    /\ lastOp.op = "unset_current" /\ lastOp.wasCurrent /\ lastOp.outcome = "ok"
    /\ current = NoFile
    /\ \A variant \in VariantSet : finalPath[variant] = Absent
    /\ \E version \in Versions : version # lastOp.version /\ versionDir[version].exists

\* C22: when the marker file exists and is empty, the output query reports
\* no current version, as it does when the file is missing, and no version
\* counts as current.
C22_EmptyMarkerIsInactive ==
    (lastOp.op = "output" /\ current.exists /\ current.text \in Blank)
        => ( /\ lastOp.outcome = "exit_1"
             /\ \A version \in Versions : ~is_current(fsNow, version) )

\* C28: when prune has run, every version still installed is the current
\* one, the current version, if installed before, is installed as it was,
\* and the marker file and the variant paths are unchanged.
C28_PruneKeepsOnlyCurrent ==
    [][ lastOp'.op \in {"prune", "manage_prune"}
        => ( /\ \A version \in Versions :
                    versionDir'[version].exists => current = File(version)
             /\ \A version \in Versions :
                    current = File(version) => versionDir'[version] = versionDir[version]
             /\ current' = current
             /\ finalPath' = finalPath ) ]_vars

\* C29: when enable ends with the filesystem-conflict error while a version
\* is active at the other variant paths, the marker file and every variant
\* symlink are as they were before the call, wherever in the variant list
\* the conflicting path is.
C29_ConflictKeepsActiveVersion ==
    [][ (lastOp'.op = "enable" /\ lastOp'.outcome = "conflict")
        => ( /\ current' = current
             /\ \A variant \in VariantSet :
                    finalPath[variant].kind = "link"
                        => finalPath'[variant] = finalPath[variant] ) ]_vars

\* C23: in a completed clone, pull or submodule update the percentages
\* passed to the progress callback never go down, lie in 0..100, and 100 is
\* passed exactly once, as the last of them.
C23_ProgressEndsWithOneHundred ==
    task.pc = "done"
        => ( /\ NonDecreasing(task.callbacks)
             /\ \A i \in 1..Len(task.callbacks) : task.callbacks[i] \in 0..100
             /\ Cardinality({ i \in 1..Len(task.callbacks) : task.callbacks[i] = 100 }) = 1
             /\ task.callbacks[Len(task.callbacks)] = 100 )

\* C24: a task in which a git clone, pull, checkout, submodule init or
\* submodule update exited non-zero does not return normally: it ends with
\* the CalledProcessError that carries git's output.
FailedInvocations(log) ==
    { i \in 1..Len(log) : log[i].rc # 0 /\ log[i].cmd # "branch_delete" }

C24_FailedGitAbortsTask ==
    (task.pc = "done" /\ FailedInvocations(task.log) # {})
        => (task.outcome = "raised" /\ task.error = "CalledProcessError")

\* C25: in GitMultiClone.clone the invocations of checkout_commit come after
\* the clone (path absent) or after clean, reset and pull (path present) have
\* finished; when the commit is in the remote and no invocation fails for an
\* outside reason the task returns, and whenever it returns the branch
\* `current` is at the commit asked for, whatever it was at before; when the
\* working copy does not hold the commit the task raises and the branch
\* `current` is not checked out.
Position(log, cmd) == { i \in 1..Len(log) : log[i].cmd = cmd }
Before(log, first, second) ==
    \A j \in Position(log, second) : \E i \in Position(log, first) : i < j

C26_FanOutClosedByBarrier ==
    fanout.pc # "idle"
        => ( /\ fanout.pc \in {"returned", "timing", "variants"}
                    => \A i \in Futures :
                          /\ fanout.tasks[i] \in Finished \cup {"none"}
                          /\ (i \in 1..fanout.submodules) => fanout.tasks[i] # "none"
             /\ \A i \in Futures \ {0} :
                    fanout.tasks[i] # "none" => fanout.tasks[0] = "returned"
             /\ Cardinality(Running(fanout.tasks)) <= fanout.jobs )

C26_Witness ==
    /\ fanout.pc = "variants"
    /\ fanout.jobs < fanout.submodules
    /\ \A i \in 0..fanout.submodules : fanout.tasks[i] \in Finished
    /\ \E i \in 1..fanout.submodules : fanout.tasks[i] = "raised"

\* C27: after a keyboard interrupt during the configure and make steps of
\* build_variants, every container that had been started and had not exited
\* was passed to docker kill and is killed, the ownership step is entered,
\* and the call ends, if it ends, with the interrupt.
C27_InterruptKillsFixesAndReraises ==
    (variant_build.pc # "idle" /\ variant_build.interrupted)
        => ( /\ variant_build.unfinished \subseteq variant_build.killed
             /\ \A c \in variant_build.unfinished : variant_build.containers[c] = "killed"
             /\ variant_build.step = "ownership"
             /\ variant_build.pc = "ended" => variant_build.outcome = "KeyboardInterrupt" )

\* C30: the token resolved for a session created without a github_token
\* argument is the -t value, else the GITHUB_TOKEN of the environment, else
\* the token of the gh hosts file; when there is one, every request of the
\* session carries it in its Authorization header.
ExpectedToken ==
    IF ~session.override.is_none /\ session.override.text # "" THEN session.override
    ELSE IF ~session.env_token.is_none /\ session.env_token.text \notin Blank
         THEN session.env_token
    ELSE IF session.hosts.exists /\ session.hosts.github_com THEN session.hosts.oauth_token
    ELSE NoneStr

C30_ResolvedTokenIsSent ==
    (session.pc = "session" /\ session.argument.is_none)
        => ( /\ session.github_token = ExpectedToken
             /\ (session.requests > 0 /\ ~session.github_token.is_none)
                    => session.sent = Bearer(session.github_token.text) )

====
